---- MODULE Spec2Model ----
(***************************************************************************)
(* Model of AutomatedPromptEngineering.ipynb: the notebook's cells, run    *)
(* top to bottom.  The cells seed Python's random module, build the list   *)
(* of dspy.Example objects, shuffle it in place, slice it into train, val  *)
(* and test, evaluate a fresh RiddleAnsweringAI on the three subsets,      *)
(* compile an optimized program with MIPROv2, evaluate that program on     *)
(* the three subsets and print the six scores.                             *)
(*                                                                         *)
(* What the notebook delegates to its libraries is modelled at the call:   *)
(* the generator behind random.shuffle is a small deterministic generator  *)
(* standing in for the Mersenne Twister; the language model's answer to a  *)
(* riddle is any label or a malformed completion; what dspy.Evaluate does  *)
(* with a malformed completion or an empty devset, and the scalar it       *)
(* derives from the counts, are not fixed by the notebook.                 *)
(***************************************************************************)
EXTENDS Integers, Sequences, FiniteSets, TLC

\* ------------------------------------------------------------------ bounds

\* Largest number of rows of the down-sampled dataframe (partition runs).
MaxN == 11

\* Largest number of rows in a full run of the notebook.
MaxRunN == 5

\* Most calls of the language model the optimizer makes in one compile.
MaxOptimizerCalls == 2

\* Longest question, most choices and longest choice text of a raw record.
MaxQuestionLen == 2
MaxChoices == 2
MaxTextLen == 1

\* ------------------------------------------------------- program constants

\* SEED = 1208
SEED == 1208

\* Seeds the partition is checked with; the notebook's own is SEED.
Seeds == {0, 1, SEED}

\* answer: Literal["A", "B", "C", "D", "E"]
Labels == {"A", "B", "C", "D", "E"}

\* ------------------------------------------------------------- random

\* The states of the stand-in generator.
GenStates == 0..65536

\* random.seed(a): the generator's state is a function of the seed alone.
\* The second parameter is the state before the call, which seeding discards.
NotSeeded(a, before) == before

InitGenrand(a, before) == a % Cardinality(GenStates)

\* One step of the generator: a full-period congruential step on GenStates.
genrand(s) == (s * 75 + 74) % Cardinality(GenStates)

\* random._randbelow(k) for k >= 1, read off the state s: a value in 0..k-1.
randbelow(s, k) == s % k

\* A swap that loses x[i]: x[i] = x[j] alone.
CopyOver(x, i, j) == [x EXCEPT ![i] = x[j]]

\* x with the elements at positions i and j exchanged: x[i], x[j] = x[j], x[i].
Swap(x, i, j) == [x EXCEPT ![i] = x[j], ![j] = x[i]]

\* random.shuffle's loop from position i down (positions are 1-based here):
\*   for i in reversed(range(1, len(x))): j = randbelow(i + 1); swap x[i], x[j]
\* Returns the shuffled list and the generator's state after the draws.
RECURSIVE ShuffleFrom(_, _, _)
ShuffleFrom(x, i, s) ==
    IF i < 2 THEN [x |-> x, rng |-> s]
    ELSE LET s1 == genrand(s)
             j  == randbelow(s1, i) + 1
         IN  ShuffleFrom(Swap(x, i, j), i - 1, s1)

shuffle(x, s) == ShuffleFrom(x, Len(x), s)

\* ------------------------------------------------------------- the split

\* int(0.6 * n): the double product 0.6 * n, truncated.  For every n below
\* 200000 the truncated double equals the integer quotient used here (and
\* likewise for int(0.2 * n)); the sampled dataframe holds about 100 rows.
RoundedTrainSize(n) == (6 * n + 5) \div 10

TrainSize(n) == (6 * n) \div 10

\* 0.2 * n rounded up instead of truncated.
CeilValSize(n) == (2 * n + 9) \div 10

\* int(0.2 * n)
ValSize(n) == (2 * n) \div 10

Min(a, b) == IF a < b THEN a ELSE b

Range(s) == {s[i] : i \in DOMAIN s}

\* Python's s[lo:hi] for 0 <= lo, hi: the elements at 0-based positions
\* lo .. hi-1, both ends clamped to len(s).
Slice(s, lo, hi) == SubSeq(s, Min(lo, Len(s)) + 1, Min(hi, Len(s)))

\* train = dspy_dataset[:train_size]
TrainSlice(s) == Slice(s, 0, TrainSize(Len(s)))

\* val = dspy_dataset[train_size : train_size + val_size]
ValSlice(s) == Slice(s, TrainSize(Len(s)), TrainSize(Len(s)) + ValSize(Len(s)))

\* test = dspy_dataset[train_size + val_size :]
OverlappingTestSlice(s) == Slice(s, TrainSize(Len(s)), Len(s))

TestSlice(s) == Slice(s, TrainSize(Len(s)) + ValSize(Len(s)), Len(s))

\* ------------------------------------------------------------ pipeline

\* A completion that does not parse into the Riddle signature, or whose
\* answer is none of the five labels.
Malformed == "malformed"

\* What one call of the pipeline on one riddle can come back with.
Outputs == Labels \cup {Malformed}

LabelSeq == <<"A", "B", "C", "D", "E">>

\* A row of the dataframe: its index and its answer key.
Row(i) == [id |-> i, answer |-> LabelSeq[(i % Len(LabelSeq)) + 1]]

\* dspy.Example(riddle=riddle, answer=answer).with_inputs("riddle")
Example(row) == [riddle |-> row.id, answer |-> row.answer]

\* metric = dspy.evaluate.metrics.answer_exact_match
metric(example, pred) == pred = example.answer

\* The list the ingestion loop builds from the rows, in the rows' order.
Ingested(rows) == [i \in DOMAIN rows |-> Example(rows[i])]

\* ---------------------------------------------------------- riddle text
\* Text is a sequence of characters.  The run below names a riddle by the
\* row it was built from; the operators here build its text.

\* f"{label}. {choice}, "
ChoiceItem(label, choice) == <<label, ".", " ">> \o choice \o <<",", " ">>

\* answer_choices after the loop over zip(labels, context), from pair i on.
RECURSIVE AnswerChoicesFrom(_, _, _)
AnswerChoicesFrom(labels, context, i) ==
    IF i > Min(Len(labels), Len(context)) THEN <<>>
    ELSE ChoiceItem(labels[i], context[i]) \o AnswerChoicesFrom(labels, context, i + 1)

\* answer_choices[:-1]: the trailing space alone is removed.
RemoveLastCharacter(t) == SubSeq(t, 1, IF Len(t) > 1 THEN Len(t) - 1 ELSE 0)

\* answer_choices[:-2]: all but the last two characters, nothing when there
\* are fewer than two.
RemoveTrailingComma(t) == SubSeq(t, 1, IF Len(t) > 2 THEN Len(t) - 2 ELSE 0)

\* riddle = f"{question}: {answer_choices}"
RiddleText(question, labels, context) ==
    question \o <<":", " ">>
             \o RemoveTrailingComma(AnswerChoicesFrom(labels, context, 1))

\* The Example built from one raw record.
FormattedExample(rec) ==
    [riddle |-> RiddleText(rec.question, rec.labels, rec.text),
     answer |-> rec.answer]

SeqsUpTo(S, n) == UNION {[1..k -> S] : k \in 0..n}

\* The raw records the formatting is exercised on: questions and choice
\* texts that themselves hold the separators, zero or more choices.
RawRecords ==
    {[question |-> q, answer |-> a, labels |-> SubSeq(LabelSeq, 1, Len(t)), text |-> t] :
        q \in SeqsUpTo({"w", ",", " "}, MaxQuestionLen),
        a \in Labels,
        t \in SeqsUpTo(SeqsUpTo({"x", ","}, MaxTextLen), MaxChoices)}

NoRecord == [question |-> <<>>, answer |-> "A", labels |-> <<>>, text |-> <<>>]
NoExample == [riddle |-> <<>>, answer |-> "none"]

NoProgram == [stage |-> "none"]

\* RiddleAnsweringAI(): the template instruction and no demonstrations.
RiddleAnsweringAI ==
    [stage |-> "baseline", instruction |-> "template",
     bootstrapped |-> {}, labeled |-> {}]

\* max_bootstrapped_demos=2 and max_labeled_demos=2, as passed to compile.
max_labeled_demos == 2

LooseBootstrappedDemos == max_labeled_demos + 1

max_bootstrapped_demos == 2

SubsetsUpTo(S, k) == {D \in SUBSET S : Cardinality(D) <= k}

\* The configurations optm.compile can return for a training set: either
\* instruction, and demonstrations drawn from the training examples within
\* the two limits.
Compiled(trainset) ==
    {[stage |-> "optimized", instruction |-> ins,
      bootstrapped |-> bd, labeled |-> ld] :
        ins \in {"template", "proposed"},
        bd \in SubsetsUpTo({e.riddle : e \in trainset}, max_bootstrapped_demos),
        ld \in SubsetsUpTo({e.riddle : e \in trainset}, max_labeled_demos)}

\* ----------------------------------------------------------------- state

VARIABLES
    pc,            \* the cell the run is about to execute
    seed,          \* the value of SEED this run uses
    rng,           \* the state of the random module's generator
    dataset,       \* the down-sampled dataframe: its rows, in order
    dspy_dataset,  \* the list of dspy.Example objects
    train, val, test,
    run,           \* 1 in the first run of the cells, 2 in a re-run
    prev,          \* the subsets the first run produced, once re-run
    pipeline,      \* the program the run last built, compiled or evaluated
    optimized_riddle_answerer,
    ev,            \* the Evaluate call in progress, if any
    scores,        \* the six score variables
    compiles,      \* how many times optm.compile has been called
    done,          \* the steps completed, in order
    optimizer_input,  \* the trainset and valset optm.compile was given
    opt,           \* the optm.compile call in progress, if any
    in_flight,     \* calls of the language model in progress
    row,           \* a raw record of the dataset
    example        \* the Example built from row, once built

partitionVars == <<seed, rng, dataset, dspy_dataset, train, val, test, run, prev>>
runVars ==
    <<pipeline, optimized_riddle_answerer, ev, scores, compiles, done,
      optimizer_input, opt, in_flight>>
formatVars == <<row, example>>
vars == <<pc, partitionVars, runVars, formatVars>>

NoSubsets == <<>>
NoEval == [active |-> FALSE]
NoScore == [set |-> FALSE]
NoOptimizer == [active |-> FALSE]
NoInput == [given |-> FALSE]

OrigCells == {"orig_train", "orig_val", "orig_test"}
OptCells == {"opt_train", "opt_val", "opt_test"}
EvalCells == OrigCells \cup OptCells

InitWith(sizes, seeds) ==
    /\ pc = "seed"
    /\ seed \in seeds
    /\ rng \in {0, 7}
    /\ \E n \in sizes : dataset = [i \in 1..n |-> Row(i)]
    /\ dspy_dataset = <<>>
    /\ train = <<>>
    /\ val = <<>>
    /\ test = <<>>
    /\ run = 1
    /\ prev = NoSubsets
    /\ pipeline = NoProgram
    /\ optimized_riddle_answerer = NoProgram
    /\ ev = NoEval
    /\ scores = [c \in EvalCells |-> NoScore]
    /\ compiles = 0
    /\ done = <<>>
    /\ optimizer_input = NoInput
    /\ opt = NoOptimizer
    /\ in_flight = 0
    /\ row = NoRecord
    /\ example = NoExample

\* random.seed(SEED)
SeedCell ==
    /\ pc = "seed"
    /\ rng' = InitGenrand(seed, rng)
    /\ pc' = "ingest"
    /\ UNCHANGED <<seed, dataset, dspy_dataset, train, val, test, run, prev>>
    /\ UNCHANGED runVars
    /\ UNCHANGED formatVars

\* dspy_dataset = [] and the loop appending one Example per row.
IngestCell ==
    /\ pc = "ingest"
    /\ dspy_dataset' = Ingested(dataset)
    /\ pc' = "shuffle"
    /\ UNCHANGED <<seed, rng, dataset, train, val, test, run, prev>>
    /\ UNCHANGED runVars
    /\ UNCHANGED formatVars

\* random.shuffle(dspy_dataset): in place.
ShuffleCell ==
    /\ pc = "shuffle"
    /\ LET r == shuffle(dspy_dataset, rng)
       IN  /\ dspy_dataset' = r.x
           /\ rng' = r.rng
    /\ pc' = "split"
    /\ UNCHANGED <<seed, dataset, train, val, test, run, prev>>
    /\ UNCHANGED runVars
    /\ UNCHANGED formatVars

\* The three slices.
SplitCell ==
    /\ pc = "split"
    /\ train' = TrainSlice(dspy_dataset)
    /\ val' = ValSlice(dspy_dataset)
    /\ test' = TestSlice(dspy_dataset)
    /\ pc' = "partitioned"
    /\ done' = Append(done, "partition")
    /\ UNCHANGED <<seed, rng, dataset, dspy_dataset, run, prev>>
    /\ UNCHANGED <<pipeline, optimized_riddle_answerer, ev, scores, compiles>>
    /\ UNCHANGED <<optimizer_input, opt, in_flight>>
    /\ UNCHANGED formatVars

\* The cells run again from the top, in the same kernel, on the same rows.
Rerun ==
    /\ pc = "partitioned"
    /\ run = 1
    /\ run' = 2
    /\ prev' = <<train, val, test>>
    /\ pc' = "seed"
    /\ done' = <<>>
    /\ UNCHANGED <<seed, rng, dataset, dspy_dataset, train, val, test>>
    /\ UNCHANGED <<pipeline, optimized_riddle_answerer, ev, scores, compiles>>
    /\ UNCHANGED <<optimizer_input, opt, in_flight>>
    /\ UNCHANGED formatVars

PartitionInit == InitWith(0..MaxN, Seeds)

PartitionNext == SeedCell \/ IngestCell \/ ShuffleCell \/ SplitCell \/ Rerun

PartitionSpec == PartitionInit /\ [][PartitionNext]_vars

\* --------------------------------------------------------------- the run

\* An order in which compile comes before the baseline evaluation on test.
ReorderedNextCell(c) ==
    CASE c = "partitioned" -> "orig_train"
      [] c = "orig_train"  -> "orig_val"
      [] c = "orig_val"    -> "compile"
      [] c = "compile"     -> "orig_test"
      [] c = "orig_test"   -> "opt_train"
      [] c = "opt_train"   -> "opt_val"
      [] c = "opt_val"     -> "opt_test"
      [] c = "opt_test"    -> "report"
      [] OTHER             -> "done"

\* The cells after the split, in the notebook's order.
NextCell(c) ==
    CASE c = "partitioned" -> "orig_train"
      [] c = "orig_train"  -> "orig_val"
      [] c = "orig_val"    -> "orig_test"
      [] c = "orig_test"   -> "compile"
      [] c = "compile"     -> "opt_train"
      [] c = "opt_train"   -> "opt_val"
      [] c = "opt_val"     -> "opt_test"
      [] c = "opt_test"    -> "report"
      [] OTHER             -> "done"

\* devset=train, devset=val, devset=test of the three dspy.Evaluate objects.
Devset(c) ==
    CASE c \in {"orig_train", "opt_train"} -> train
      [] c \in {"orig_val", "opt_val"}     -> val
      [] OTHER                             -> test

\* The program the cells after compile pass to the evaluators.
FreshProgramUnderOptEval == RiddleAnsweringAI

ProgramUnderOptEval == optimized_riddle_answerer

\* The program cell c passes to its evaluator.
ProgramFor(c) == IF c \in OrigCells THEN RiddleAnsweringAI ELSE ProgramUnderOptEval

\* Llama.from_pretrained, dspy.LlamaCpp and dspy.settings.configure: the
\* model loads and the run goes on to the first evaluation.
LoadModel ==
    /\ pc = "partitioned"
    /\ pc' = NextCell(pc)
    /\ UNCHANGED partitionVars
    /\ UNCHANGED runVars
    /\ UNCHANGED formatVars

\* The model cannot be downloaded or loaded: the cell raises.
LoadModelFails ==
    /\ pc = "partitioned"
    /\ pc' = "raised"
    /\ UNCHANGED partitionVars
    /\ UNCHANGED runVars
    /\ UNCHANGED formatVars

\* Two workers instead of one.
TwoThreads == 1 + 1

\* num_threads=1 of the three dspy.Evaluate objects.
num_threads == 1

\* num_threads=1 of dspy.MIPROv2.
optm_num_threads == 1

\* trainset=train and valset=val of optm.compile.
Trainset == train

\* The test subset passed as valset.
TestAsValset == test

Valset == val

\* An evaluation cell starts: the program is built (or looked up) and the
\* evaluator is called on it.
EvalBegin ==
    /\ pc \in EvalCells
    /\ ~ev.active
    /\ pipeline' = ProgramFor(pc)
    /\ ev' = [active |-> TRUE, idx |-> 1, called |-> 0, correct |-> 0]
    /\ UNCHANGED <<pc, optimized_riddle_answerer, scores, compiles, done>>
    /\ UNCHANGED <<optimizer_input, opt, in_flight>>
    /\ UNCHANGED partitionVars
    /\ UNCHANGED formatVars

\* The evaluator calls the program, and so the language model, on the next
\* example: a worker is free when fewer than num_threads calls are running.
EvalCall ==
    /\ pc \in EvalCells
    /\ ev.active
    /\ ev.called < Len(Devset(pc))
    /\ in_flight < num_threads
    /\ ev' = [ev EXCEPT !.called = @ + 1]
    /\ in_flight' = in_flight + 1
    /\ UNCHANGED <<pc, pipeline, optimized_riddle_answerer, scores, compiles, done>>
    /\ UNCHANGED <<optimizer_input, opt>>
    /\ UNCHANGED partitionVars
    /\ UNCHANGED formatVars

\* The call on the oldest running example returns and the metric scores the
\* prediction.  A malformed completion counts as not correct when the
\* evaluator goes on.
EvalExample ==
    /\ pc \in EvalCells
    /\ ev.active
    /\ ev.idx <= ev.called
    /\ \E out \in Outputs :
          LET ex == Devset(pc)[ev.idx]
              score == IF out # Malformed /\ metric(ex, out) THEN 1 ELSE 0
          IN  ev' = [ev EXCEPT !.idx = @ + 1, !.correct = @ + score]
    /\ in_flight' = in_flight - 1
    /\ UNCHANGED <<pc, pipeline, optimized_riddle_answerer, scores, compiles, done>>
    /\ UNCHANGED <<optimizer_input, opt>>
    /\ UNCHANGED partitionVars
    /\ UNCHANGED formatVars

\* A malformed completion surfaces as an exception of the cell instead.
EvalRaisesOnMalformed ==
    /\ pc \in EvalCells
    /\ ev.active
    /\ ev.idx <= ev.called
    /\ pc' = "raised"
    /\ ev' = NoEval
    /\ in_flight' = in_flight - 1
    /\ UNCHANGED <<pipeline, optimized_riddle_answerer, scores, compiles, done>>
    /\ UNCHANGED <<optimizer_input, opt>>
    /\ UNCHANGED partitionVars
    /\ UNCHANGED formatVars

\* Every example is scored: the evaluator returns and the cell assigns the
\* score variable.  The score is kept as the counts it is derived from.
EvalReturn ==
    /\ pc \in EvalCells
    /\ ev.active
    /\ ev.idx > Len(Devset(pc))
    /\ scores' = [scores EXCEPT ![pc] =
                    [set |-> TRUE, correct |-> ev.correct,
                     total |-> Len(Devset(pc)), stage |-> pipeline.stage]]
    /\ ev' = NoEval
    /\ done' = Append(done, pc)
    /\ pc' = NextCell(pc)
    /\ UNCHANGED <<pipeline, optimized_riddle_answerer, compiles>>
    /\ UNCHANGED <<optimizer_input, opt, in_flight>>
    /\ UNCHANGED partitionVars
    /\ UNCHANGED formatVars

\* The evaluator was given an empty devset and raises instead of returning.
EvalRaisesOnEmpty ==
    /\ pc \in EvalCells
    /\ ev.active
    /\ Len(Devset(pc)) = 0
    /\ pc' = "raised"
    /\ ev' = NoEval
    /\ UNCHANGED <<pipeline, optimized_riddle_answerer, scores, compiles, done>>
    /\ UNCHANGED <<optimizer_input, opt, in_flight>>
    /\ UNCHANGED partitionVars
    /\ UNCHANGED formatVars

\* optm.compile is called on a fresh RiddleAnsweringAI() with trainset and
\* valset.
CompileBegin ==
    /\ pc = "compile"
    /\ ~opt.active
    /\ pipeline' = RiddleAnsweringAI
    /\ optimizer_input' = [given |-> TRUE, trainset |-> Trainset, valset |-> Valset]
    /\ opt' = [active |-> TRUE, calls |-> 0]
    /\ UNCHANGED <<pc, optimized_riddle_answerer, ev, scores, compiles, done, in_flight>>
    /\ UNCHANGED partitionVars
    /\ UNCHANGED formatVars

\* The optimizer calls the language model (to bootstrap a demonstration, to
\* propose an instruction or to score a candidate).
OptimizerCall ==
    /\ opt.active
    /\ opt.calls < MaxOptimizerCalls
    /\ in_flight < optm_num_threads
    /\ opt' = [opt EXCEPT !.calls = @ + 1]
    /\ in_flight' = in_flight + 1
    /\ UNCHANGED <<pc, pipeline, optimized_riddle_answerer, ev, scores, compiles, done>>
    /\ UNCHANGED optimizer_input
    /\ UNCHANGED partitionVars
    /\ UNCHANGED formatVars

\* A call of the optimizer returns.
OptimizerCallReturns ==
    /\ opt.active
    /\ in_flight > 0
    /\ in_flight' = in_flight - 1
    /\ UNCHANGED <<pc, pipeline, optimized_riddle_answerer, ev, scores, compiles, done>>
    /\ UNCHANGED <<optimizer_input, opt>>
    /\ UNCHANGED partitionVars
    /\ UNCHANGED formatVars

\* optm.compile returns and the cell assigns optimized_riddle_answerer:
\*   optm.compile(RiddleAnsweringAI(), trainset=train, valset=val,
\*                max_bootstrapped_demos=2, max_labeled_demos=2)
CompileCell ==
    /\ pc = "compile"
    /\ opt.active
    /\ in_flight = 0
    /\ \E cfg \in Compiled(Range(optimizer_input.trainset)) :
          /\ optimized_riddle_answerer' = cfg
          /\ pipeline' = cfg
    /\ opt' = NoOptimizer
    /\ compiles' = compiles + 1
    /\ done' = Append(done, pc)
    /\ pc' = NextCell(pc)
    /\ UNCHANGED <<ev, scores, optimizer_input, in_flight>>
    /\ UNCHANGED partitionVars
    /\ UNCHANGED formatVars

\* The six print statements.
ReportCell ==
    /\ pc = "report"
    /\ done' = Append(done, pc)
    /\ pc' = NextCell(pc)
    /\ UNCHANGED <<pipeline, optimized_riddle_answerer, ev, scores, compiles>>
    /\ UNCHANGED <<optimizer_input, opt, in_flight>>
    /\ UNCHANGED partitionVars
    /\ UNCHANGED formatVars

Init == InitWith(0..MaxRunN, {SEED})

Next ==
    \/ SeedCell
    \/ IngestCell
    \/ ShuffleCell
    \/ SplitCell
    \/ LoadModel
    \/ LoadModelFails
    \/ EvalBegin
    \/ EvalCall
    \/ EvalExample
    \/ EvalRaisesOnMalformed
    \/ EvalRaisesOnEmpty
    \/ EvalReturn
    \/ CompileBegin
    \/ OptimizerCall
    \/ OptimizerCallReturns
    \/ CompileCell
    \/ ReportCell

Spec == Init /\ [][Next]_vars

\* ------------------------------------------------------------ ingestion

\* One pass of the ingestion loop's body: the Example of one raw record.
FormatRow ==
    /\ example = NoExample
    /\ example' = FormattedExample(row)
    /\ UNCHANGED <<pc, row>>
    /\ UNCHANGED partitionVars
    /\ UNCHANGED runVars

FormatInit ==
    /\ pc = "ingest"
    /\ seed = SEED
    /\ rng = InitGenrand(SEED, 0)
    /\ dataset = <<>>
    /\ dspy_dataset = <<>>
    /\ train = <<>>
    /\ val = <<>>
    /\ test = <<>>
    /\ run = 1
    /\ prev = NoSubsets
    /\ pipeline = NoProgram
    /\ optimized_riddle_answerer = NoProgram
    /\ ev = NoEval
    /\ scores = [c \in EvalCells |-> NoScore]
    /\ compiles = 0
    /\ done = <<>>
    /\ optimizer_input = NoInput
    /\ opt = NoOptimizer
    /\ in_flight = 0
    /\ row \in RawRecords
    /\ example = NoExample

FormatNext == FormatRow

FormatSpec == FormatInit /\ [][FormatNext]_vars

\* The items "<label>. <text>" of a record, joined by ", ".
RECURSIVE Joined(_)
Joined(items) ==
    IF Len(items) = 0 THEN <<>>
    ELSE IF Len(items) = 1 THEN items[1]
    ELSE items[1] \o <<",", " ">> \o Joined(Tail(items))

\* C18: the Example's input text is the question, then ": ", then the items
\* "<label>. <text>" in the record's order joined by ", " with no trailing
\* separator, and its expected label is the record's answer key; with no
\* choices the text is the question followed by ": ".
C18_RiddleFormat ==
    example # NoExample =>
        LET k == Len(row.labels)
            items == [i \in 1..k |-> <<row.labels[i], ".", " ">> \o row.text[i]]
        IN  /\ example.riddle = row.question \o <<":", " ">> \o Joined(items)
            /\ example.answer = row.answer
            /\ k = 0 => example.riddle = row.question \o <<":", " ">>

\* The Example of a record with a question and two choices has been built.
C18_Witness ==
    /\ example # NoExample
    /\ Len(row.labels) = 2
    /\ Len(row.question) >= 1
    /\ row.text[1] # <<>>

\* ------------------------------------------------------------ partition

PrePartition == {"seed", "ingest", "shuffle", "split"}

\* The split cell of the current run has executed.
Partitioned == pc \notin PrePartition

\* C1: once the split has run, the lengths of train, val and test sum to the
\* number of examples of the dataset, and no example is in two of the subsets.
C1_SumAndDisjoint ==
    Partitioned =>
        /\ Len(train) + Len(val) + Len(test) = Len(dataset)
        /\ Len(train) + Len(val) + Len(test) = Len(dspy_dataset)
        /\ Range(train) \cap Range(val) = {}
        /\ Range(train) \cap Range(test) = {}
        /\ Range(val) \cap Range(test) = {}

\* A split of a shuffled dataset in which all three subsets hold examples.
C1_Witness ==
    /\ Partitioned
    /\ Len(train) > 0 /\ Len(val) > 0 /\ Len(test) > 0
    /\ dspy_dataset # dataset

\* C2: for n >= 1 examples, train is the first floor(0.6 n) elements of the
\* shuffled list, val the next floor(0.2 n), test all the remaining ones, in
\* shuffled order; 10 examples give sizes 6, 2 and 2.
C2_ContiguousRanges ==
    (Partitioned /\ Len(dataset) >= 1) =>
        LET n == Len(dspy_dataset)
            a == (3 * n) \div 5
            b == n \div 5
        IN  /\ train = [i \in 1..a |-> dspy_dataset[i]]
            /\ val = [i \in 1..b |-> dspy_dataset[a + i]]
            /\ test = [i \in 1..(n - a - b) |-> dspy_dataset[a + b + i]]
            /\ n = 10 => <<Len(train), Len(val), Len(test)>> = <<6, 2, 2>>

\* The scenario of the claim: ten examples, the notebook's seed.
C2_Witness ==
    /\ Partitioned
    /\ seed = SEED
    /\ Len(dataset) = 10
    /\ Len(train) = 6

\* C3: a re-run of the shuffle and the split with the same seed on the same
\* rows produces the same train, val and test, element for element.
C3_Deterministic ==
    (run = 2 /\ Partitioned) => <<train, val, test>> = prev

\* A re-run that has split a list the shuffle did permute.
C3_Witness ==
    /\ run = 2
    /\ Partitioned
    /\ Len(dataset) >= 5
    /\ dspy_dataset # dataset
    /\ prev = <<train, val, test>>

\* C15 as stated: after the shuffle and the split the list of Examples holds
\* the same elements in the same order as before the shuffle.
C15_InputOrderKept ==
    Partitioned => dspy_dataset = Ingested(dataset)

\* C15, amended: the shuffle reorders the list in place and nothing else:
\* after the shuffle and the split the list holds exactly the Examples built
\* from the rows, each once and unmodified, and the three subsets are its
\* slices.
C15_PermutedInPlace ==
    Partitioned =>
        /\ Len(dspy_dataset) = Len(dataset)
        /\ Range(dspy_dataset) = Range(Ingested(dataset))
        /\ \A i, j \in DOMAIN dspy_dataset :
              dspy_dataset[i] = dspy_dataset[j] => i = j
        /\ train \o val \o test = dspy_dataset

\* The split has run on a list the shuffle left in another order.
C15_Witness ==
    /\ Partitioned
    /\ Len(dataset) >= 3
    /\ dspy_dataset # Ingested(dataset)
    /\ Range(dspy_dataset) = Range(Ingested(dataset))

\* C16 as stated: among the splits of 1..MaxN examples there is one with an
\* empty validation subset and one with an empty test subset.
C16_SomeEmptyValSomeEmptyTest ==
    Partitioned =>
        /\ \E n \in 1..MaxN : ValSlice(Ingested([i \in 1..n |-> Row(i)])) = <<>>
        /\ \E n \in 1..MaxN : TestSlice(Ingested([i \in 1..n |-> Row(i)])) = <<>>

\* C16, amended: every n from 1 to 4 gives an empty validation subset, and
\* no n >= 1 gives an empty test subset.
C16_EmptyValNeverEmptyTest ==
    (Partitioned /\ Len(dataset) >= 1) =>
        /\ test # <<>>
        /\ Len(dataset) <= 4 => val = <<>>
        /\ Len(dataset) >= 5 => val # <<>>

\* A split of a non-empty dataset with an empty validation subset.
C16_Witness ==
    /\ Partitioned
    /\ Len(dataset) >= 1
    /\ val = <<>>
    /\ test # <<>>

\* C17: for every n >= 0, len(val) <= len(test) <= len(val) + 2 and
\* len(val) <= len(train); for n >= 1 the test subset is not empty and the
\* train subset is empty exactly when n = 1.
C17_SizeRelations ==
    Partitioned =>
        /\ Len(val) <= Len(test)
        /\ Len(test) <= Len(val) + 2
        /\ Len(val) <= Len(train)
        /\ Len(dataset) >= 1 => Len(test) >= 1
        /\ Len(dataset) >= 1 => (Len(train) = 0 <=> Len(dataset) = 1)

\* The split of a single example: train is empty, test is not; and a split
\* in which test exceeds val by two.
C17_Witness ==
    /\ Partitioned
    /\ \/ Len(dataset) = 1 /\ Len(train) = 0 /\ Len(test) = 1
       \/ Len(dataset) = 9 /\ Len(test) = Len(val) + 2

\* ------------------------------------------------------------ optimizer

\* C8: the program optm.compile returned holds at most 2 bootstrapped and at
\* most 2 labeled demonstrations.
C8_DemosWithinLimits ==
    optimized_riddle_answerer # NoProgram =>
        /\ Cardinality(optimized_riddle_answerer.bootstrapped) <= 2
        /\ Cardinality(optimized_riddle_answerer.labeled) <= 2

\* compile has returned a program that uses both limits to the full, from a
\* training set that holds more examples than either limit.
C8_Witness ==
    /\ optimized_riddle_answerer # NoProgram
    /\ Len(train) > 2
    /\ Cardinality(optimized_riddle_answerer.bootstrapped) = 2
    /\ Cardinality(optimized_riddle_answerer.labeled) = 2

Stages == {"baseline", "optimized"}

\* C9: a program of the run is baseline or optimized; a step takes the run's
\* program from baseline to optimized exactly when it is a call of
\* optm.compile, and no step takes an optimized program back to baseline.
C9_OneWayTransition ==
    [][/\ pipeline' # NoProgram => pipeline'.stage \in Stages
       /\ pipeline.stage = "optimized" => pipeline'.stage = "optimized"
       /\ compiles' \in {compiles, compiles + 1}
       /\ (pipeline.stage # "optimized" /\ pipeline'.stage = "optimized")
              <=> compiles' = compiles + 1]_vars

\* The optimized program has been evaluated on all three subsets.
C9_Witness ==
    /\ pc = "done"
    /\ compiles = 1
    /\ pipeline.stage = "optimized"
    /\ \A c \in OptCells : scores[c].set

\* C12: optm.compile is given only the train and validation subsets: no
\* example of the test subset is in its trainset or valset, nor among the
\* demonstrations of the program it returns.
C12_TestHeldOut ==
    /\ optimizer_input.given =>
          /\ optimizer_input.trainset = train
          /\ optimizer_input.valset = val
          /\ (Range(optimizer_input.trainset) \cup Range(optimizer_input.valset))
                 \cap Range(test) = {}
    /\ optimized_riddle_answerer # NoProgram =>
          (optimized_riddle_answerer.bootstrapped \cup optimized_riddle_answerer.labeled)
              \cap {e.riddle : e \in Range(test)} = {}

\* compile has returned, given non-empty train and validation subsets while
\* the test subset holds examples too.
C12_Witness ==
    /\ optimizer_input.given
    /\ optimized_riddle_answerer # NoProgram
    /\ optimized_riddle_answerer.labeled # {}
    /\ optimizer_input.valset # <<>>
    /\ test # <<>>

\* C13: at most one call of the language model is in progress at any time,
\* in the evaluators and in the optimizer; an evaluator starts the call for
\* an example only when the calls for all earlier examples have returned.
C13_NoOverlap ==
    /\ in_flight \in {0, 1}
    /\ ev.active => ev.called - (ev.idx - 1) = in_flight
    /\ ~(ev.active /\ opt.active)

\* The optimizer has made its calls and an evaluator of the optimized
\* program is in its second call.
C13_Witness ==
    /\ in_flight = 1
    /\ pc \in OptCells
    /\ ev.active
    /\ ev.called = 2
    /\ compiles = 1

\* ---------------------------------------------------------------- order

RunOrder ==
    <<"partition", "orig_train", "orig_val", "orig_test", "compile",
      "opt_train", "opt_val", "opt_test", "report">>

IsPrefix(a, b) == Len(a) <= Len(b) /\ a = SubSeq(b, 1, Len(a))

\* C10: the steps complete in the order partition, baseline evaluation on
\* train, val and test, compile, optimized evaluation on train, val and test,
\* report; an optimized score is computed only after compile has returned,
\* and every baseline score is computed on a baseline program.
C10_StepOrder ==
    /\ IsPrefix(done, RunOrder)
    /\ \A c \in OptCells :
          (scores[c].set \/ (pc = c /\ ev.active)) =>
              /\ optimized_riddle_answerer # NoProgram
              /\ "compile" \in Range(done)
    /\ \A c \in OrigCells :
          /\ scores[c].set => scores[c].stage = "baseline"
          /\ (pc = c /\ ev.active) => pipeline.stage = "baseline"

\* A run that went through every step.
C10_Witness ==
    /\ pc = "done"
    /\ done = RunOrder
    /\ \A c \in EvalCells : scores[c].set

====
